---- MODULE Spec2Model ----
(***************************************************************************)
(* A model of playlist_logic.py: normalisation, classification, playlist  *)
(* building and merging, statistics and search.                           *)
(*                                                                         *)
(* Python values are tagged records (Val), a str is a sequence of         *)
(* one-character strings, a dict is a function whose domain is its key    *)
(* set, and a list lives in a heap so that two names of the same list     *)
(* object can be told from two equal lists.                               *)
(***************************************************************************)
EXTENDS Integers, Sequences, FiniteSets, TLC

VARIABLES heap, prov, groupings, call

vars == <<heap, prov, groupings, call>>

----------------------------------------------------------------------------
(* Bounds of the model *)

\* number of groupings the caller holds at once
MaxGroupings == 3
\* longest song list handed to search_songs
MaxSearch == 2
\* largest energy of a normalized song handed to classify_song
MaxEnergy == 8

----------------------------------------------------------------------------
(* Python str: sequences of characters *)

UpperChars == <<"A","B","C","D","E","F","G","H","I","J","K","L","M",
                "N","O","P","Q","R","S","T","U","V","W","X","Y","Z">>
LowerChars == <<"a","b","c","d","e","f","g","h","i","j","k","l","m",
                "n","o","p","q","r","s","t","u","v","w","x","y","z">>
Whitespace == {" ", "\t", "\n"}
DigitChars == <<"0","1","2","3","4","5","6","7","8","9">>

LowerChar(c) ==
    IF \E i \in 1..Len(UpperChars) : UpperChars[i] = c
    THEN LowerChars[CHOOSE i \in 1..Len(UpperChars) : UpperChars[i] = c]
    ELSE c

\* str.lower()
Lower(s) == [i \in 1..Len(s) |-> LowerChar(s[i])]

RECURSIVE LStrip(_)
LStrip(s) ==
    IF s # <<>> /\ Head(s) \in Whitespace THEN LStrip(Tail(s)) ELSE s

RECURSIVE RStrip(_)
RStrip(s) ==
    IF s # <<>> /\ s[Len(s)] \in Whitespace
    THEN RStrip(SubSeq(s, 1, Len(s) - 1))
    ELSE s

\* str.strip()
Strip(s) == RStrip(LStrip(s))

\* needle in hay
Contains(hay, needle) ==
    \E i \in 0..(Len(hay) - Len(needle)) :
        \A j \in 1..Len(needle) : hay[i + j] = needle[j]

DigitValue(c) == (CHOOSE i \in 1..10 : DigitChars[i] = c) - 1

IsDigits(s) == s # <<>> /\ \A i \in 1..Len(s) : \E d \in 1..10 : DigitChars[d] = s[i]

RECURSIVE DigitsValue(_)
DigitsValue(s) ==
    IF s = <<>> THEN 0
    ELSE 10 * DigitsValue(SubSeq(s, 1, Len(s) - 1)) + DigitValue(s[Len(s)])

RECURSIVE NatToStr(_)
NatToStr(n) ==
    IF n < 10 THEN <<DigitChars[n + 1]>>
    ELSE NatToStr(n \div 10) \o <<DigitChars[(n % 10) + 1]>>

IntToStr(n) == IF n < 0 THEN <<"-">> \o NatToStr(-n) ELSE NatToStr(n)

----------------------------------------------------------------------------
(* Python values *)

StrV(s)  == [t |-> "str",  s |-> s,    n |-> 0, l |-> <<>>]
IntV(n)  == [t |-> "int",  s |-> <<>>, n |-> n, l |-> <<>>]
NoneV    == [t |-> "none", s |-> <<>>, n |-> 0, l |-> <<>>]
ListV(l) == [t |-> "list", s |-> <<>>, n |-> 0, l |-> l]

\* the result of a call: a value, or an exception
Ret(v)   == [raised |-> FALSE, value |-> v]
Raise    == [raised |-> TRUE,  value |-> NoneV]

\* bool(v)
Truthy(v) ==
    CASE v.t = "str"  -> v.s # <<>>
      [] v.t = "int"  -> v.n # 0
      [] v.t = "list" -> v.l # <<>>
      [] OTHER        -> FALSE

\* repr() of a list item
Repr(v) ==
    CASE v.t = "str"  -> <<"'">> \o v.s \o <<"'">>
      [] v.t = "int"  -> IntToStr(v.n)
      [] v.t = "none" -> <<"N","o","n","e">>
      [] OTHER        -> <<"[", ".", ".", ".", "]">>

RECURSIVE JoinRepr(_)
JoinRepr(l) ==
    IF l = <<>> THEN <<>>
    ELSE IF Len(l) = 1 THEN Repr(l[1])
    ELSE Repr(l[1]) \o <<",", " ">> \o JoinRepr(Tail(l))

\* str(v)
Str(v) ==
    CASE v.t = "str"  -> v.s
      [] v.t = "int"  -> IntToStr(v.n)
      [] v.t = "none" -> <<"N","o","n","e">>
      [] OTHER        -> <<"[">> \o JoinRepr(v.l) \o <<"]">>

\* int(s) of a str: surrounding whitespace and a sign are accepted
ParseInt(s) ==
    LET b    == Strip(s)
        sign == b # <<>> /\ Head(b) \in {"+", "-"}
        d    == IF sign THEN Tail(b) ELSE b
    IN  IF ~IsDigits(d) THEN Raise
        ELSE Ret(IntV(IF sign /\ Head(b) = "-" THEN -DigitsValue(d) ELSE DigitsValue(d)))

\* int(v)
PyInt(v) ==
    CASE v.t = "int" -> Ret(v)
      [] v.t = "str" -> ParseInt(v.s)
      [] OTHER       -> Raise

\* d.get(key, default)
Get(d, key, default) == IF key \in DOMAIN d THEN d[key] ELSE default

----------------------------------------------------------------------------
(* Names *)

TITLE  == "title"
ARTIST == "artist"
GENRE  == "genre"
ENERGY == "energy"
TAGS   == "tags"
MOOD   == "mood"

Hype  == <<"H","y","p","e">>
Chill == <<"C","h","i","l","l">>
Mixed == <<"M","i","x","e","d">>

EmptyDict == [k \in {} |-> NoneV]

\* d[key] = v on a dict
DictSet(d, key, v) == [k \in (DOMAIN d) \cup {key} |-> IF k = key THEN v ELSE d[k]]

----------------------------------------------------------------------------
(* Normalizer *)

\* normalize_title: always called on a str, so the isinstance test passes
normalize_title(title) == Strip(title)

normalize_artist(artist) ==
    IF artist = <<>> THEN <<>> ELSE Lower(Strip(artist))

normalize_genre(genre) == Strip(Lower(genre))

\* the raw field as normalize_song reads it before str()
RawField(raw, key) == Get(raw, key, StrV(<<>>))

\* lines 41-45: only a str energy is parsed, a failed parse gives 0
NormEnergy(raw) ==
    LET energy == Get(raw, ENERGY, IntV(0))
    IN  IF energy.t = "str"
        THEN (IF ParseInt(energy.s).raised THEN IntV(0) ELSE ParseInt(energy.s).value)
        ELSE energy

\* lines 52-58: the loop body over an iterable of tags
RECURSIVE NormTagItems(_)
NormTagItems(l) ==
    IF l = <<>> THEN <<>>
    ELSE LET t  == Head(l)
             tt == Strip(t.s)
         IN  IF t.t # "str" \/ tt = <<>>
             THEN NormTagItems(Tail(l))
             ELSE <<StrV(Lower(tt))>> \o NormTagItems(Tail(l))

\* lines 47-58: iterating a value that is no str and no list raises TypeError
NormTags(raw) ==
    LET tags == Get(raw, TAGS, ListV(<<>>))
    IN  CASE tags.t = "str"  -> Ret(ListV(NormTagItems(<<tags>>)))
          [] tags.t = "list" -> Ret(ListV(NormTagItems(tags.l)))
          [] OTHER           -> Raise

normalize_song(raw) ==
    IF NormTags(raw).raised THEN Raise
    ELSE Ret([title  |-> StrV(normalize_title(Str(RawField(raw, TITLE)))),
              artist |-> StrV(normalize_artist(Str(RawField(raw, ARTIST)))),
              genre  |-> StrV(normalize_genre(Str(RawField(raw, GENRE)))),
              energy |-> NormEnergy(raw),
              tags   |-> NormTags(raw).value])

----------------------------------------------------------------------------
(* Classifier *)

DefaultHypeMin == 7
DefaultChillMax == 3

hype_keywords  == { <<"r","o","c","k">>, <<"p","u","n","k">>, <<"p","a","r","t","y">> }
chill_keywords == { <<"l","o","f","i">>, <<"a","m","b","i","e","n","t">>,
                    <<"s","l","e","e","p">> }

\* isinstance(energy, (int, float))
IsNumber(v) == v.t = "int"

\* a variant of HypeCheck: the energy threshold is exclusive
HypeCheckExclusive(genre, energy, favorite_genre, hype_min_energy) ==
    \/ genre = favorite_genre
    \/ (IsNumber(energy) /\ energy.n > hype_min_energy)
    \/ \E k \in hype_keywords : Contains(genre, k)

HypeCheck(genre, energy, favorite_genre, hype_min_energy) ==
    \/ genre = favorite_genre
    \/ (IsNumber(energy) /\ energy.n >= hype_min_energy)
    \/ \E k \in hype_keywords : Contains(genre, k)

ChillCheck(title_lower, energy, chill_max_energy) ==
    \/ (IsNumber(energy) /\ energy.n <= chill_max_energy)
    \/ \E k \in chill_keywords : Contains(title_lower, k)

classify_song(song, profile) ==
    LET energy == Get(song, ENERGY, IntV(0))
        genre  == Lower(Str(Get(song, GENRE, StrV(<<>>))))
        title_lower == Lower(Str(Get(song, TITLE, StrV(<<>>))))
        hmin == PyInt(Get(profile, "hype_min_energy", IntV(DefaultHypeMin)))
        cmax == PyInt(Get(profile, "chill_max_energy", IntV(DefaultChillMax)))
        favorite_genre == Lower(Str(Get(profile, "favorite_genre", StrV(<<>>))))
    IN  IF hmin.raised \/ cmax.raised THEN Raise
        ELSE IF HypeCheck(genre, energy, favorite_genre, hmin.value.n) THEN Ret(StrV(Hype))
        ELSE IF ChillCheck(title_lower, energy, cmax.value.n) THEN Ret(StrV(Chill))
        ELSE Ret(StrV(Mixed))

----------------------------------------------------------------------------
(* Playlist groupings: a dict from a key (a str) to a list object.  `ref`   *)
(* gives the heap id of each list and `order` the keys in insertion order. *)
(* `hashed` marks a dict whose keys were inserted in the iteration order   *)
(* of a set (line 122), which the program does not determine: such a dict  *)
(* is recorded with its keys in one order, and whoever iterates it sees    *)
(* any of the orders the set could have had (IterOrders).                  *)

MoodKeys == <<Hype, Chill, Mixed>>

NoProfile == [none |-> NoneV]

Range(f) == { f[x] : x \in DOMAIN f }

Keys(g) == DOMAIN g.ref

\* g.get(key, []) read as a sequence
ListOf(h, g, key) == IF key \in Keys(g) THEN h[g.ref[key]] ELSE <<>>

\* the grouping as the caller sees it: each key with the contents of its list
Contents(h, g) == [k \in Keys(g) |-> h[g.ref[k]]]

----------------------------------------------------------------------------
(* Playlist Builder *)

\* a variant of SetMood: every song is tagged Mixed
SetMoodMixed(normalized, mood) == DictSet(normalized, MOOD, StrV(Mixed))

\* line 113
SetMood(normalized, mood) == DictSet(normalized, MOOD, mood)

\* lines 110-114: the loop over the batch; lists is the dict being filled
RECURSIVE BuildLoop(_, _, _)
BuildLoop(songs, profile, lists) ==
    IF songs = <<>> THEN [raised |-> FALSE, lists |-> lists]
    ELSE LET n == normalize_song(Head(songs))
             m == classify_song(n.value, profile)
         IN  IF n.raised \/ m.raised
             THEN [raised |-> TRUE, lists |-> lists]
             ELSE BuildLoop(Tail(songs), profile,
                            [lists EXCEPT ![m.value.s] =
                                Append(@, SetMood(n.value, m.value))])

\* build_playlists: the three lists, or an exception
build_playlists(songs, profile) ==
    BuildLoop(songs, profile, [k \in Range(MoodKeys) |-> <<>>])

----------------------------------------------------------------------------
(* Playlist Merger *)

\* a variant of ListCopy: the list under the key is used itself, not copied
ListAlias(h, id) ==
    IF id = 0 THEN [heap |-> Append(h, <<>>), id |-> Len(h) + 1]
    ELSE [heap |-> h, id |-> id]

\* list(a.get(key, [])): a new list object holding the contents of the list
\* under key (id 0: the key is absent, the default [] is copied)
ListCopy(h, id) ==
    [heap |-> Append(h, IF id = 0 THEN <<>> ELSE h[id]), id |-> Len(h) + 1]

\* lines 122-124: one pass of the loop per key, in the set's iteration order
RECURSIVE MergeLoop(_, _, _, _, _)
MergeLoop(order, a, b, h, ref) ==
    IF order = <<>> THEN [heap |-> h, ref |-> ref]
    ELSE LET key == Head(order)
             c   == ListCopy(h, IF key \in Keys(a) THEN a.ref[key] ELSE 0)
             ext == IF key \in Keys(b) THEN c.heap[b.ref[key]] ELSE <<>>
             h2  == [c.heap EXCEPT ![c.id] = @ \o ext]
         IN  MergeLoop(Tail(order), a, b, h2, DictSet(ref, key, c.id))

\* a variant of merge_playlists: only the keys of a are iterated
merge_playlists_keys_of_a(h, a, b, order) ==
    LET o == SelectSeq(order, LAMBDA k : k \in Keys(a))
        r == MergeLoop(o, a, b, h, [k \in {} |-> 0])
    IN  [heap |-> r.heap, grouping |-> [order |-> o, ref |-> r.ref, hashed |-> TRUE]]

\* merge_playlists with the key set listed in `order`
merge_playlists(h, a, b, order) ==
    LET r == MergeLoop(order, a, b, h, [k \in {} |-> 0])
    IN  [heap |-> r.heap, grouping |-> [order |-> order, ref |-> r.ref, hashed |-> TRUE]]

\* the orders in which a set of keys can be iterated
Orders(S) == { o \in [1..Cardinality(S) -> S] : Range(o) = S }

\* one listing of a set of keys
Listed(S) == CHOOSE o \in Orders(S) : TRUE

\* the orders in which the keys of a dict may come out
IterOrders(g) == IF g.hashed THEN Orders(Keys(g)) ELSE {g.order}

\* the same dict with its keys coming out in the given order
Reordered(g, order) == [g EXCEPT !.order = order]

----------------------------------------------------------------------------
(* Statistics Engine *)

\* lines 136-138
RECURSIVE Flatten(_, _, _)
Flatten(h, g, order) ==
    IF order = <<>> THEN <<>>
    ELSE h[g.ref[Head(order)]] \o Flatten(h, g, Tail(order))

\* lines 143-145
IdentityKey(s) ==
    <<Lower(Strip(Str(Get(s, TITLE, StrV(<<>>))))),
      Lower(Strip(Str(Get(s, ARTIST, StrV(<<>>)))))>>

\* a variant of Unique: no song is discarded
UniqueKeepAll(songs, seen) == songs

\* a variant of Unique: a song is discarded only when the song right before
\* it has the same identity key
RECURSIVE UniqueAdjacent(_, _)
UniqueAdjacent(songs, seen) ==
    IF songs = <<>> THEN <<>>
    ELSE IF IdentityKey(Head(songs)) \in seen
         THEN UniqueAdjacent(Tail(songs), seen)
         ELSE <<Head(songs)>> \o UniqueAdjacent(Tail(songs), {IdentityKey(Head(songs))})

\* lines 141-149: the first song of each identity key, in order
RECURSIVE Unique(_, _)
Unique(songs, seen) ==
    IF songs = <<>> THEN <<>>
    ELSE IF IdentityKey(Head(songs)) \in seen
         THEN Unique(Tail(songs), seen)
         ELSE <<Head(songs)>> \o Unique(Tail(songs), seen \cup {IdentityKey(Head(songs))})

\* float(s.get("energy", 0) or 0), on energies that are int or None
EnergyOf(s) ==
    LET e == Get(s, ENERGY, IntV(0))
    IN  IF Truthy(e) THEN e.n ELSE 0

RECURSIVE SumEnergy(_)
SumEnergy(songs) ==
    IF songs = <<>> THEN 0 ELSE EnergyOf(Head(songs)) + SumEnergy(Tail(songs))

\* lines 180-186: counts as (artist, count) pairs in insertion order
RECURSIVE ArtistCounts(_, _)
ArtistCounts(songs, counts) ==
    IF songs = <<>> THEN counts
    ELSE LET artist == Strip(Str(Get(Head(songs), ARTIST, StrV(<<>>))))
             key    == Lower(artist)
         IN  IF artist = <<>> THEN ArtistCounts(Tail(songs), counts)
             ELSE IF \E i \in 1..Len(counts) : counts[i][1] = key
             THEN ArtistCounts(Tail(songs),
                    [i \in 1..Len(counts) |->
                        IF counts[i][1] = key THEN <<key, counts[i][2] + 1>> ELSE counts[i]])
             ELSE ArtistCounts(Tail(songs), Append(counts, <<key, 1>>))

\* lines 188-194: a stable sort by count, descending, then the first item
most_common_artist(songs) ==
    LET counts == ArtistCounts(songs, <<>>)
    IN  IF counts = <<>> THEN <<<<>>, 0>>
        ELSE counts[CHOOSE i \in 1..Len(counts) :
                      /\ \A j \in 1..Len(counts) : counts[j][2] <= counts[i][2]
                      /\ \A j \in 1..(i - 1) : counts[j][2] < counts[i][2]]

\* a float that is the quotient of two integers, kept as the pair
Ratio(num, den) == <<num, den>>

compute_playlist_stats(h, g) ==
    LET unique_songs == Unique(Flatten(h, g, g.order), {})
        total_unique == Len(unique_songs)
        hype_count   == Len(ListOf(h, g, Hype))
        top          == most_common_artist(unique_songs)
    IN  [total_songs |-> total_unique,
         hype_count  |-> hype_count,
         chill_count |-> Len(ListOf(h, g, Chill)),
         mixed_count |-> Len(ListOf(h, g, Mixed)),
         hype_ratio  |-> IF total_unique > 0 THEN Ratio(hype_count * 100, total_unique)
                         ELSE Ratio(0, 1),
         avg_energy  |-> IF total_unique > 0 THEN Ratio(SumEnergy(unique_songs), total_unique)
                         ELSE Ratio(0, 1),
         top_artist  |-> top[1],
         top_artist_count |-> top[2]]

----------------------------------------------------------------------------
(* Search *)

\* a variant of SearchMatch: an empty field value is not ruled out
SearchMatchAnyValue(song, q, field) ==
    Contains(Lower(Str(Get(song, field, StrV(<<>>)))), q)

\* line 215: the test applied to one song
SearchMatch(song, q, field) ==
    LET value == Lower(Str(Get(song, field, StrV(<<>>))))
    IN  value # <<>> /\ Contains(value, q)

\* lines 213-216: the loop that fills `filtered`
RECURSIVE SearchFilter(_, _, _)
SearchFilter(songs, q, field) ==
    IF songs = <<>> THEN <<>>
    ELSE (IF SearchMatch(Head(songs), q, field) THEN <<Head(songs)>> ELSE <<>>)
         \o SearchFilter(Tail(songs), q, field)

\* search_songs on the list object h[id]: the heap after the call and the
\* id of the list object returned
search_songs(h, id, query, field) ==
    IF ~Truthy(query)
    THEN [heap |-> h, ret |-> id]
    ELSE [heap |-> Append(h, SearchFilter(h[id], Strip(Lower(query.s)), field)),
          ret  |-> Len(h) + 1]

----------------------------------------------------------------------------
(* Inputs of the pure functions *)

Absent == [t |-> "absent", s |-> <<>>, n |-> 0, l |-> <<>>]

\* a dict literal: the keys whose value is Absent are left out
MakeDict(f) == [k \in {x \in DOMAIN f : f[x] # Absent} |-> f[k]]

ClassifyGenres == { <<>>, <<"p","o","p">>, <<"j","a","z","z">>, <<"r","o","c","k">>,
                    <<"p","o","p"," ","p","u","n","k">> }
ClassifyTitles == { <<>>, <<"H","i","t">>, <<"L","o","F","i"," ","N","a","p">>,
                    <<"s","l","e","e","p">> }

NormSongPool ==
    { [title |-> StrV(ti), artist |-> StrV(<<"a","b","b","a">>), genre |-> StrV(g),
       energy |-> IntV(e), tags |-> ListV(<<>>)] :
        ti \in ClassifyTitles, g \in ClassifyGenres, e \in 0..MaxEnergy }

DEFAULT_PROFILE ==
    [name |-> StrV(<<"D","e","f","a","u","l","t">>),
     hype_min_energy |-> IntV(7), chill_max_energy |-> IntV(3),
     favorite_genre |-> StrV(<<"r","o","c","k">>), include_mixed |-> IntV(1)]

\* chill_max_energy >= hype_min_energy, favorite genre in upper case
OverlapProfile ==
    [hype_min_energy |-> IntV(4), chill_max_energy |-> IntV(5),
     favorite_genre |-> StrV(<<"J","A","Z","Z">>)]

\* thresholds out of the reach of the energies, no favorite genre
QuietProfile ==
    [hype_min_energy |-> IntV(MaxEnergy + 2), chill_max_energy |-> IntV(-1),
     favorite_genre |-> NoneV]

ProfilePool == { DEFAULT_PROFILE, OverlapProfile, QuietProfile, EmptyDict }

RawTitles   == { Absent, NoneV, IntV(0), ListV(<<>>), StrV(<<>>), StrV(<<" ","H","i"," ">>) }
RawArtists  == { Absent, NoneV, StrV(<<" ","A","b"," ">>) }
RawGenres   == { Absent, NoneV, StrV(<<" ","R","o","c","k">>) }
RawEnergies == { Absent, NoneV, IntV(5), StrV(<<" ","1","2"," ">>), StrV(<<"7",".","5">>) }
RawTags     == { Absent, NoneV, IntV(3), StrV(<<" ","P","o","p"," ">>),
                 ListV(<<StrV(<<"A"," ">>), IntV(1), StrV(<<" ">>), NoneV>>) }

RawSongPool ==
    { MakeDict([title |-> ti, artist |-> a, genre |-> g, energy |-> e, tags |-> tg]) :
        ti \in RawTitles, a \in RawArtists, g \in RawGenres, e \in RawEnergies,
        tg \in RawTags }

SearchSongs ==
    { [title |-> StrV(<<"L","o","f","i">>), artist |-> StrV(<<"A","B","b","a">>)],
      [title |-> StrV(<<"B">>), artist |-> StrV(<<>>)],
      [title |-> StrV(<<"C">>)],
      [title |-> StrV(<<"D">>), artist |-> NoneV] }

SearchQueries == { NoneV, StrV(<<>>), StrV(<<" ">>), StrV(<<"a","B">>), StrV(<<"b"," ">>),
                   StrV(<<"n">>), StrV(<<"z">>) }

SearchFields == { TITLE, ARTIST, GENRE }

\* the sequences over S of length at most n
SeqsUpTo(S, n) == UNION { [1..k -> S] : k \in 0..n }

----------------------------------------------------------------------------
(* The pure functions: Init draws the arguments, the action makes the call *)

NoGroupings ==
    /\ prov = <<>>
    /\ groupings = <<>>

InitClassify ==
    /\ NoGroupings
    /\ heap = <<>>
    /\ \E song \in NormSongPool, profile \in ProfilePool :
          call = [op |-> "classify_song", song |-> song, profile |-> profile,
                  done |-> FALSE, ret |-> Raise]

Classify ==
    /\ call.op = "classify_song" /\ ~call.done
    /\ call' = [call EXCEPT !.done = TRUE,
                            !.ret = classify_song(call.song, call.profile)]
    /\ UNCHANGED <<heap, prov, groupings>>

SpecClassify == InitClassify /\ [][Classify]_vars

InitNormalize ==
    /\ NoGroupings
    /\ heap = <<>>
    /\ \E raw \in RawSongPool :
          call = [op |-> "normalize_song", raw |-> raw, done |-> FALSE, ret |-> Raise]

Normalize ==
    /\ call.op = "normalize_song" /\ ~call.done
    /\ call' = [call EXCEPT !.done = TRUE, !.ret = normalize_song(call.raw)]
    /\ UNCHANGED <<heap, prov, groupings>>

SpecNormalize == InitNormalize /\ [][Normalize]_vars

InitSearch ==
    /\ NoGroupings
    /\ \E songs \in SeqsUpTo(SearchSongs, MaxSearch), query \in SearchQueries,
          field \in SearchFields :
          /\ heap = <<songs>>
          /\ call = [op |-> "search_songs", songs |-> songs, query |-> query,
                     field |-> field, arg |-> 1, done |-> FALSE, ret |-> 0]

Search ==
    /\ call.op = "search_songs" /\ ~call.done
    /\ LET r == search_songs(heap, call.arg, call.query, call.field)
       IN  /\ heap' = r.heap
           /\ call' = [call EXCEPT !.done = TRUE, !.ret = r.ret]
    /\ UNCHANGED <<prov, groupings>>

SpecSearch == InitSearch /\ [][Search]_vars

----------------------------------------------------------------------------
(* A caller's session: it builds groupings from batches, makes groupings of *)
(* its own, merges the groupings it holds, asks for statistics, and edits   *)
(* the lists of a merge result.  prov is a history variable: for each list  *)
(* of the heap, the profile each of its songs was classified under.         *)

Fav == <<"F","a","v">>

SongA   == [title |-> StrV(<<" ","A">>), artist |-> StrV(<<"X"," ">>),
            genre |-> StrV(<<"P","o","p">>), energy |-> IntV(8)]
SongA2  == [title |-> StrV(<<"a">>), artist |-> StrV(<<"x">>),
            genre |-> StrV(<<"j","a","z","z">>), energy |-> StrV(<<"2">>)]
SongBad == [title |-> StrV(<<"C">>), tags |-> NoneV]

\* the batches the caller builds from: SongA and SongA2 are the same song by
\* identity key with two energies, SongBad carries a null tags value
Batches ==
    { <<>>, <<SongA>>, <<SongA, SongA2>>, <<SongA2, SongA, SongA>>,
      <<SongBad>>, <<SongA, SongBad, SongA2>> }

BatchProfiles == { DEFAULT_PROFILE, QuietProfile }

\* groupings made by the caller: other keys, songs that were never normalized
CallerGroupings ==
    { [order |-> <<Fav, Hype>>,
       lists |-> (Fav :> << [title |-> StrV(<<" ","Z"," ">>), artist |-> StrV(<<"Q">>),
                             energy |-> IntV(6)] >>)
                 @@ (Hype :> << [title |-> StrV(<<"z">>), artist |-> StrV(<<"q"," ">>),
                                 energy |-> IntV(6)] >>)],
      [order |-> <<Chill, Hype>>,
       lists |-> (Chill :> << [title |-> StrV(<<"B">>), artist |-> StrV(<<"y">>),
                               energy |-> NoneV] >>)
                 @@ (Hype :> << [title |-> StrV(<<"Z">>), artist |-> StrV(<<"q">>),
                                 energy |-> IntV(6)] >>)] }

ExtraSong == [title |-> StrV(<<"E">>), artist |-> StrV(<<"e">>), energy |-> IntV(1)]

\* n new list objects with the given contents, in order
Alloc(h, lists) == h \o lists

\* build_playlists on every batch and profile the caller may pass
BuildTable ==
    [x \in Batches \X BatchProfiles |-> build_playlists(x[1], x[2])]

Init ==
    /\ heap = <<>>
    /\ prov = <<>>
    /\ groupings = <<>>
    /\ call = [op |-> "none"]

\* an exception that build_playlists lets through ends the caller's session
Running == ~(call.op = "build_playlists" /\ call.raised)

Build ==
    /\ Running
    /\ Len(groupings) < MaxGroupings
    /\ \E songs \in Batches, profile \in BatchProfiles :
          LET r == BuildTable[<<songs, profile>>]
              n == Len(heap)
          IN  IF r.raised
              THEN /\ call' = [op |-> "build_playlists", songs |-> songs,
                               profile |-> profile, raised |-> TRUE, ret |-> 0]
                   /\ UNCHANGED <<heap, prov, groupings>>
              ELSE /\ heap' = Alloc(heap, [i \in 1..3 |-> r.lists[MoodKeys[i]]])
                   /\ prov' = Alloc(prov, [i \in 1..3 |->
                                  [j \in 1..Len(r.lists[MoodKeys[i]]) |-> profile]])
                   /\ groupings' = Append(groupings,
                          [order |-> MoodKeys, hashed |-> FALSE,
                           ref   |-> [k \in Range(MoodKeys) |->
                                        n + (CHOOSE i \in 1..3 : MoodKeys[i] = k)]])
                   /\ call' = [op |-> "build_playlists", songs |-> songs,
                               profile |-> profile, raised |-> FALSE,
                               ret |-> Len(groupings) + 1]

MakeGrouping ==
    /\ Running
    /\ Len(groupings) < MaxGroupings
    /\ \E c \in CallerGroupings :
          LET n == Len(heap)
              k == Len(c.order)
          IN  /\ heap' = Alloc(heap, [i \in 1..k |-> c.lists[c.order[i]]])
              /\ prov' = Alloc(prov, [i \in 1..k |->
                             [j \in 1..Len(c.lists[c.order[i]]) |-> NoProfile]])
              /\ groupings' = Append(groupings,
                     [order |-> c.order, hashed |-> FALSE,
                      ref   |-> [x \in Range(c.order) |->
                                   n + (CHOOSE i \in 1..k : c.order[i] = x)]])
              /\ call' = [op |-> "caller", ret |-> Len(groupings) + 1]

Merge ==
    /\ Running
    /\ Len(groupings) < MaxGroupings
    /\ \E i, j \in 1..Len(groupings) :
          LET order == Listed(Keys(groupings[i]) \cup Keys(groupings[j]))
              r == merge_playlists(heap, groupings[i], groupings[j], order)
          IN  /\ heap' = r.heap
              /\ prov' = merge_playlists(prov, groupings[i], groupings[j], order).heap
              /\ groupings' = Append(groupings, r.grouping)
              /\ call' = [op |-> "merge_playlists", a |-> i, b |-> j,
                          ret |-> Len(groupings) + 1]

\* the caller asks for the statistics of the grouping it was just handed
Stats ==
    /\ Running
    /\ call.op \in {"build_playlists", "caller", "merge_playlists"}
    /\ \E order \in IterOrders(groupings[call.ret]) :
          call' = [op |-> "compute_playlist_stats", arg |-> call.ret,
                   made_by |-> call.op,
                   ret |-> compute_playlist_stats(heap,
                              Reordered(groupings[call.ret], order))]
    /\ UNCHANGED <<heap, prov, groupings>>

\* the caller appends to a list of the grouping the last merge returned
CallerAppend ==
    /\ call.op = "merge_playlists"
    /\ \E key \in Keys(groupings[call.ret]) :
          LET id == groupings[call.ret].ref[key]
          IN  /\ heap' = [heap EXCEPT ![id] = Append(@, ExtraSong)]
              /\ prov' = [prov EXCEPT ![id] = Append(@, NoProfile)]
              /\ call' = [op |-> "list.append", target |-> call.ret, key |-> key,
                          a |-> call.a, b |-> call.b]
    /\ UNCHANGED groupings

\* the caller removes the last song of a list of the grouping the last merge returned
CallerRemove ==
    /\ call.op = "merge_playlists"
    /\ \E key \in Keys(groupings[call.ret]) :
          LET id == groupings[call.ret].ref[key]
          IN  /\ heap[id] # <<>>
              /\ heap' = [heap EXCEPT ![id] = SubSeq(@, 1, Len(@) - 1)]
              /\ prov' = [prov EXCEPT ![id] = SubSeq(@, 1, Len(@) - 1)]
              /\ call' = [op |-> "list.pop", target |-> call.ret, key |-> key,
                          a |-> call.a, b |-> call.b]
    /\ UNCHANGED groupings

Next == Build \/ MakeGrouping \/ Merge \/ Stats

Spec == Init /\ [][Next]_vars

\* a caller that holds groupings of its own, merges them and edits the results
NextMerge == MakeGrouping \/ Merge \/ CallerAppend \/ CallerRemove

SpecMerge == Init /\ [][NextMerge]_vars

----------------------------------------------------------------------------
(* Properties *)

Done(op) == call.op = op /\ call.done

Moods == Range(MoodKeys)

\* the thresholds and the favorite genre a profile stands for
ProfileHypeMin(p)  == IF "hype_min_energy" \in DOMAIN p THEN p.hype_min_energy.n ELSE 7
ProfileChillMax(p) == IF "chill_max_energy" \in DOMAIN p THEN p.chill_max_energy.n ELSE 3
ProfileFavorite(p) ==
    IF "favorite_genre" \notin DOMAIN p THEN <<>>
    ELSE IF p.favorite_genre.t = "none" THEN <<"n","o","n","e">>
    ELSE Lower(p.favorite_genre.s)

SongIsHype(song, p) ==
    \/ song.genre.s = ProfileFavorite(p)
    \/ song.energy.n >= ProfileHypeMin(p)
    \/ \E k \in { <<"r","o","c","k">>, <<"p","u","n","k">>, <<"p","a","r","t","y">> } :
          Contains(song.genre.s, k)

SongIsChill(song, p) ==
    \/ song.energy.n <= ProfileChillMax(p)
    \/ \E k \in { <<"l","o","f","i">>, <<"a","m","b","i","e","n","t">>,
                  <<"s","l","e","e","p">> } :
          Contains(Lower(song.title.s), k)

\* C1: classify_song returns Hype exactly when a Hype condition holds (favorite
\* genre, energy >= hype_min_energy, hype keyword in the genre), whatever the
\* energy and the title; otherwise Chill exactly when a Chill condition holds;
\* otherwise Mixed.
C1_ClassifyInStrictOrder ==
    Done("classify_song") =>
        /\ ~call.ret.raised
        /\ call.ret.value =
             StrV(IF SongIsHype(call.song, call.profile) THEN Hype
                  ELSE IF SongIsChill(call.song, call.profile) THEN Chill
                  ELSE Mixed)

\* a song that meets a Hype and a Chill condition under a profile whose
\* chill_max_energy is at least its hype_min_energy, classified Hype
C1_Witness ==
    /\ Done("classify_song")
    /\ ProfileChillMax(call.profile) >= ProfileHypeMin(call.profile)
    /\ call.song.energy.n = ProfileHypeMin(call.profile)
    /\ SongIsChill(call.song, call.profile)
    /\ Contains(Lower(call.song.title.s), <<"l","o","f","i">>)
    /\ call.ret.value = StrV(Hype)

\* the raw song of the call carries a tags value that is no list and no str
MalformedTags(raw) == TAGS \in DOMAIN raw /\ raw[TAGS].t \notin {"list", "str"}

\* C7: normalize_song does not raise on a tags value that is neither a list
\* nor a string, and returns a song whose tags is the empty sequence.
C7_MalformedTagsGiveNoTags ==
    (Done("normalize_song") /\ MalformedTags(call.raw)) =>
        /\ ~call.ret.raised
        /\ call.ret.value.tags = ListV(<<>>)

\* C8: a title, artist or genre that is absent, null or otherwise falsy is
\* normalized to the empty string.
C8_FalsyFieldsGiveEmptyString ==
    (Done("normalize_song") /\ ~call.ret.raised) =>
        \A f \in {TITLE, ARTIST, GENRE} :
            (f \notin DOMAIN call.raw \/ ~Truthy(call.raw[f])) =>
                call.ret.value[f] = StrV(<<>>)

\* the query of the call, lower-cased and trimmed
TrimmedQuery == Strip(Lower(call.query.s))

\* the field value of a song as text, lower-cased; an absent field is empty
FieldText(song, field) ==
    IF field \in DOMAIN song THEN Lower(Str(song[field])) ELSE <<>>

\* C9: an empty or null query returns the input list itself; any other query
\* returns, in order, exactly the songs whose field text is non-empty and
\* contains the lower-cased trimmed query, so a song with an empty or absent
\* field is never returned.
C9_SearchSelectsMatches ==
    Done("search_songs") =>
        IF call.query.t = "none" \/ call.query.s = <<>>
        THEN call.ret = call.arg /\ heap[call.arg] = call.songs
        ELSE /\ call.ret # call.arg
             /\ heap[call.arg] = call.songs
             /\ heap[call.ret] =
                  SelectSeq(call.songs,
                            LAMBDA s : /\ FieldText(s, call.field) # <<>>
                                       /\ Contains(FieldText(s, call.field), TrimmedQuery))
             /\ \A i \in 1..Len(heap[call.ret]) :
                   /\ call.field \in DOMAIN heap[call.ret][i]
                   /\ Str(heap[call.ret][i][call.field]) # <<>>

\* a whitespace-only query over a list that holds a song with the field and
\* a song without it: the first is returned, the second is not
C9_Witness ==
    /\ Done("search_songs")
    /\ call.query = StrV(<<" ">>)
    /\ call.field = ARTIST
    /\ Len(call.songs) = 2
    /\ Len(heap[call.ret]) = 1
    /\ \E i \in 1..2 : ARTIST \notin DOMAIN call.songs[i]

\* every song of every list of a grouping
AllSongs(g) == Flatten(heap, g, g.order)

\* the grouping a call returned
Returned == groupings[call.ret]

\* the input songs of a build, normalized, with the mood the profile gives each
Expected(songs, profile) ==
    [i \in 1..Len(songs) |->
        DictSet(normalize_song(songs[i]).value, MOOD,
                classify_song(normalize_song(songs[i]).value, profile).value)]

\* C2: build_playlists returns a grouping with exactly the keys Hype, Chill
\* and Mixed whose lists together hold every input song once, each list in
\* input order.
C2_BuildKeepsEverySong ==
    call.op = "build_playlists" =>
        /\ ~call.raised
        /\ Keys(Returned) = Moods
        /\ Len(ListOf(heap, Returned, Hype)) + Len(ListOf(heap, Returned, Chill))
             + Len(ListOf(heap, Returned, Mixed)) = Len(call.songs)
        /\ \A k \in Moods :
              ListOf(heap, Returned, k) =
                  SelectSeq(Expected(call.songs, call.profile),
                            LAMBDA s : s[MOOD] = StrV(k))

\* C3: in every grouping made by build_playlists and merge_playlists, a song
\* that build_playlists classified sits under the key that is its mood, and
\* that mood is classify_song of the song under the profile of its build.
C3_MoodIsKey ==
    \A i \in 1..Len(groupings) : \A k \in Keys(groupings[i]) :
        LET id == groupings[i].ref[k]
        IN  \A p \in 1..Len(heap[id]) :
                prov[id][p] # NoProfile =>
                    /\ MOOD \in DOMAIN heap[id][p]
                    /\ heap[id][p][MOOD] = StrV(k)
                    /\ classify_song(heap[id][p], prov[id][p]) = Ret(StrV(k))

\* the profiles under which the songs of a grouping were classified
ProfilesOf(g) ==
    UNION { Range(prov[g.ref[k]]) : k \in Keys(g) } \ {NoProfile}

\* a merge result that holds songs classified under two profiles
C3_Witness ==
    /\ call.op = "merge_playlists"
    /\ Cardinality(ProfilesOf(Returned)) = 2
    /\ \E k \in Keys(Returned) : Len(heap[Returned.ref[k]]) >= 2

\* a step in which merge_playlists returns
MergeStep ==
    /\ call'.op = "merge_playlists"
    /\ Len(groupings') = Len(groupings) + 1

\* C4: the keys of merge_playlists(a, b) are the keys of a and of b, and the
\* list under each key is a's list followed by b's list, an absent key
\* counting as the empty list.
C4_MergeConcatenates ==
    [][MergeStep =>
         LET a == groupings[call'.a]
             b == groupings[call'.b]
             m == groupings'[call'.ret]
         IN  /\ Keys(m) = Keys(a) \cup Keys(b)
             /\ \A k \in Keys(m) :
                   /\ heap'[m.ref[k]] = ListOf(heap, a, k) \o ListOf(heap, b, k)
                   /\ Len(heap'[m.ref[k]])
                        = Len(ListOf(heap, a, k)) + Len(ListOf(heap, b, k))]_vars

\* a merge in which a key of a is absent from b, a key of b is absent from a,
\* and a key of both has songs on either side
C4_Witness ==
    /\ call.op = "merge_playlists"
    /\ Keys(groupings[call.a]) \ Keys(groupings[call.b]) # {}
    /\ Keys(groupings[call.b]) \ Keys(groupings[call.a]) # {}
    /\ \E k \in Keys(groupings[call.a]) \cap Keys(groupings[call.b]) :
          /\ ListOf(heap, groupings[call.a], k) # <<>>
          /\ ListOf(heap, groupings[call.b], k) # <<>>
          /\ Len(heap[Returned.ref[k]]) >= 2

\* C5: merge_playlists leaves the groupings it was given as they were, also
\* when both are the same grouping, and the lists of its result are new: an
\* append to or a removal from one of them changes no list of another grouping.
C5_MergeLeavesInputsAlone ==
    [][/\ MergeStep =>
            \A i \in 1..Len(groupings) :
                /\ groupings'[i] = groupings[i]
                /\ Contents(heap', groupings[i]) = Contents(heap, groupings[i])
       /\ call'.op \in {"list.append", "list.pop"} =>
            \A i \in 1..Len(groupings) :
                i # call'.target =>
                    Contents(heap', groupings[i]) = Contents(heap, groupings[i])]_vars

\* a grouping merged with itself, and a song appended to a list of the result
\* under a key of that grouping
C5_Witness ==
    /\ call.op = "list.append"
    /\ call.a = call.b
    /\ call.key \in Keys(groupings[call.a])
    /\ ListOf(heap, groupings[call.a], call.key) # <<>>
    /\ Len(heap[groupings[call.target].ref[call.key]])
         = 2 * Len(ListOf(heap, groupings[call.a], call.key)) + 1

\* the identity key of a song as the data model words it: the title and the
\* artist, each lower-cased and trimmed
TextOf(song, field) == IF field \in DOMAIN song THEN Str(song[field]) ELSE <<>>

SongIdentity(song) ==
    <<Strip(Lower(TextOf(song, TITLE))), Strip(Lower(TextOf(song, ARTIST)))>>

Identities(g) == { SongIdentity(s) : s \in Range(AllSongs(g)) }

\* a grouping as build_playlists returns it
FromBuild(g) ==
    /\ Keys(g) = Moods
    /\ g.order = MoodKeys
    /\ ~g.hashed
    /\ NoProfile \notin UNION { Range(prov[g.ref[k]]) : k \in Keys(g) }

\* C6: total_songs is the number of distinct identity keys among all songs,
\* hype_count, chill_count and mixed_count are the raw list lengths, and
\* hype_ratio is hype_count * 100 / total_songs, or 0 without songs; so the
\* statistics of merge_playlists(g, g), for a built g with Hype songs, show
\* the total_songs of g and twice its hype_count.
C6_UniqueTotalRawCounts ==
    /\ call.op = "compute_playlist_stats" =>
          LET g == groupings[call.arg]
              n == Cardinality(Identities(g))
          IN  /\ call.ret.total_songs = n
              /\ call.ret.hype_count  = Len(ListOf(heap, g, Hype))
              /\ call.ret.chill_count = Len(ListOf(heap, g, Chill))
              /\ call.ret.mixed_count = Len(ListOf(heap, g, Mixed))
              /\ call.ret.hype_ratio =
                   IF n > 0 THEN <<100 * Len(ListOf(heap, g, Hype)), n>> ELSE <<0, 1>>
    /\ (/\ call.op = "merge_playlists"
        /\ call.a = call.b
        /\ FromBuild(groupings[call.a])
        /\ ListOf(heap, groupings[call.a], Hype) # <<>>) =>
          LET sg == compute_playlist_stats(heap, groupings[call.a])
          IN  \A o \in IterOrders(Returned) :
                 LET sm == compute_playlist_stats(heap, Reordered(Returned, o))
                 IN  /\ sm.total_songs = sg.total_songs
                     /\ sm.hype_count = 2 * sg.hype_count
                     /\ sm.hype_count > sg.hype_count

\* the statistics of a grouping that is a built grouping merged with itself,
\* with a hype_count above total_songs
C6_Witness ==
    /\ call.op = "compute_playlist_stats"
    /\ call.made_by = "merge_playlists"
    /\ \E i \in 1..Len(groupings) :
          /\ FromBuild(groupings[i])
          /\ Keys(groupings[call.arg]) = Moods
          /\ \A k \in Moods :
                ListOf(heap, groupings[call.arg], k)
                    = ListOf(heap, groupings[i], k) \o ListOf(heap, groupings[i], k)
    /\ call.ret.total_songs > 0
    /\ call.ret.hype_count > call.ret.total_songs
    /\ call.ret.hype_ratio[1] > 100 * call.ret.hype_ratio[2]

\* the numeric fields of the statistics, the sum of energies among them
CountFields(st) ==
    <<st.total_songs, st.hype_count, st.chill_count, st.mixed_count, st.top_artist_count>>

EnergySum(st) == st.avg_energy[1]

\* the statistics of a grouping under every order its keys may come out in
StatsUnderOrders(g) ==
    { compute_playlist_stats(heap, Reordered(g, o)) : o \in IterOrders(g) }

\* songs of the grouping with the same identity key carry the same energy
SameKeySameEnergy(g) ==
    \A s1, s2 \in Range(AllSongs(g)) :
        SongIdentity(s1) = SongIdentity(s2) => EnergyOf(s1) = EnergyOf(s2)

\* C10 as stated: whatever the order in which merge_playlists leaves the
\* keys, the statistics show the same counts and the same sum of energies,
\* also when songs with the same identity key carry different energies.
C10_StatsIgnoreKeyOrder ==
    call.op = "merge_playlists" =>
        \A s1, s2 \in StatsUnderOrders(Returned) :
            /\ CountFields(s1) = CountFields(s2)
            /\ EnergySum(s1) = EnergySum(s2)

\* C10 as amended: whatever the order of the keys, the statistics show the
\* same total_songs, hype_count, chill_count, mixed_count and
\* top_artist_count; the sum of energies is the same when the songs with the
\* same identity key carry the same energy.
C10_CountsIgnoreKeyOrder ==
    call.op = "merge_playlists" =>
        \A s1, s2 \in StatsUnderOrders(Returned) :
            /\ CountFields(s1) = CountFields(s2)
            /\ SameKeySameEnergy(Returned) => EnergySum(s1) = EnergySum(s2)

\* a merge result that holds the same song, with the same energy, in the
\* lists of two keys, and a second song
C10_Witness ==
    /\ call.op = "merge_playlists"
    /\ SameKeySameEnergy(Returned)
    /\ Cardinality(Identities(Returned)) >= 2
    /\ \E k1, k2 \in Keys(Returned) :
          /\ k1 # k2
          /\ \E s1 \in Range(heap[Returned.ref[k1]]), s2 \in Range(heap[Returned.ref[k2]]) :
                SongIdentity(s1) = SongIdentity(s2)

====
